---- MODULE Spec2Model ----
(***************************************************************************)
(* A model of fname.py: the Fname class (a parsed file name with a lazily  *)
(* cached content hash) and the host filesystem it looks at.               *)
(*                                                                         *)
(* A Python str is a sequence of one-character strings; a bytes object is  *)
(* a run-length encoded sequence (see the section on file contents).       *)
(***************************************************************************)
EXTENDS Integers, Sequences, FiniteSets, TLC

VARIABLES
    \* -- construction (SpecCreate) --
    arg,        \* the string handed to Fname(...)
    f,          \* the object Fname(arg), or NoObj
    g,          \* the object Fname(f.fqn), or NoObj
    err,        \* the exception the last constructor call raised, or "none"
    cpc,        \* "start", "made", "remade", "raised"
    \* -- the filesystem and two live objects (Spec) --
    fs,         \* path -> what is at that path now
    objs,       \* handle -> Fname object (its _content_hash is the cache)
    ret,        \* the last call made on an object and what it returned
    modified,   \* path -> "asbuilt", "created" (absent when the objects were built, written since) or "changed"
    \* -- one generator returned by Fname.__call__ (SpecRead) --
    gen,        \* the generator's position
    fd,         \* the file object the generator's with-block holds
    out,        \* the segments the consumer has received so far
    disk,       \* what is at the generator's path now
    changed     \* how often the path was written or unlinked since the generator was made

vars == <<arg, f, g, err, cpc, fs, objs, ret, modified, gen, fd, out, disk, changed>>
createVars == <<arg, f, g, err, cpc>>
fsVars == <<fs, objs, ret, modified>>
readVars == <<gen, fd, out, disk, changed>>

-----------------------------------------------------------------------------
(* Bounds *)

MaxLen == 4         \* longest path text tried as constructor input
MaxFileRuns == 1    \* most runs in the bytes of a file of Spec
MaxReadRuns == 2    \* most runs in the bytes of the file of SpecRead
MaxChanges == 1     \* most writes and unlinks while the generator of SpecRead lives

-----------------------------------------------------------------------------
(* str helpers *)

Min(S) == CHOOSE x \in S : \A y \in S : x <= y
Max(S) == CHOOSE x \in S : \A y \in S : x >= y

\* sub in s
Contains(s, sub) ==
    \E i \in 1..(Len(s) - Len(sub) + 1) : SubSeq(s, i, i + Len(sub) - 1) = sub

\* s.startswith(p)
StartsWith(s, p) == Len(s) >= Len(p) /\ SubSeq(s, 1, Len(p)) = p

\* s.endswith(p)
EndsWith(s, p) == Len(s) >= Len(p) /\ SubSeq(s, Len(s) - Len(p) + 1, Len(s)) = p

\* 1 + the index str.find gives for the first character of cs at or after
\* 1-based position start; 0 when there is none.
Find(s, cs, start) ==
    LET hits == {i \in start..Len(s) : s[i] \in cs}
    IN  IF hits = {} THEN 0 ELSE Min(hits)

\* 1 + s.rfind(c); 0 when there is none.
RFind(s, c) ==
    LET hits == {i \in 1..Len(s) : s[i] = c}
    IN  IF hits = {} THEN 0 ELSE Max(hits)

\* s.rstrip(c)
RStrip(s, c) ==
    LET keep == {i \in 1..Len(s) : s[i] # c}
    IN  IF keep = {} THEN <<>> ELSE SubSeq(s, 1, Max(keep))

\* s.split(c)
RECURSIVE SplitOn(_, _)
SplitOn(s, c) ==
    LET i == Find(s, {c}, 1)
    IN  IF i = 0 THEN <<s>>
        ELSE <<SubSeq(s, 1, i - 1)>> \o SplitOn(SubSeq(s, i + 1, Len(s)), c)

\* c.join(comps)
RECURSIVE JoinWith(_, _)
JoinWith(comps, c) ==
    IF comps = <<>> THEN <<>>
    ELSE IF Len(comps) = 1 THEN comps[1]
    ELSE comps[1] \o <<c>> \o JoinWith(Tail(comps), c)

\* c * n
Repeat(c, n) == [i \in 1..n |-> c]

-----------------------------------------------------------------------------
(* The host: os.sep, the working directory and the environment of the      *)
(* process.  Fname reads them through os.path.                             *)

sep == "/"
Cwd == <<"/", "c">>                  \* os.getcwd()
Home == <<"/", "h">>                 \* os.environ['HOME']
EnvName == <<"a">>                   \* the one variable the environment sets
EnvValue == <<".", ".">>             \* and its value
WordChars == {"a", "c", "h", "f", "i", "l", "e"}      \* \w among the characters used
SchemeChars == WordChars \cup {"."}                   \* urllib.parse.scheme_chars

-----------------------------------------------------------------------------
(* posixpath *)

\* os.path.expanduser: only a leading ~ is expanded; ~name names a user of
\* the password database, which holds none of the names that can be written.
expanduser(path) ==
    IF ~StartsWith(path, <<"~">>) THEN path
    ELSE LET slash == Find(path, {sep}, 2)
             i == IF slash = 0 THEN Len(path) + 1 ELSE slash
         IN  IF i # 2 THEN path
             ELSE LET r == RStrip(Home, sep) \o SubSeq(path, i, Len(path))
                  IN  IF r = <<>> THEN <<sep>> ELSE r

\* the end (1-based, inclusive) of the run of word characters starting at k
RECURSIVE WordEnd(_, _)
WordEnd(path, k) ==
    IF k + 1 <= Len(path) /\ path[k + 1] \in WordChars THEN WordEnd(path, k + 1) ELSE k

\* os.path.expandvars: the loop over matches of \$(\w+|\{[^}]*\}), searching
\* from position i; a substituted value is not searched again.
RECURSIVE ExpandFrom(_, _)
ExpandFrom(path, i) ==
    LET starts == {k \in i..(Len(path) - 1) : path[k] = "$" /\ path[k + 1] \in WordChars}
    IN  IF starts = {} THEN path
        ELSE LET k == Min(starts)
                 j == WordEnd(path, k + 1)
                 name == SubSeq(path, k + 1, j)
             IN  IF name = EnvName
                 THEN LET head == SubSeq(path, 1, k - 1) \o EnvValue
                      IN  ExpandFrom(head \o SubSeq(path, j + 1, Len(path)), Len(head) + 1)
                 ELSE ExpandFrom(path, j + 1)

expandvars(path) == IF ~Contains(path, <<"$">>) THEN path ELSE ExpandFrom(path, 1)

\* os.path.join(a, b)
join(a, b) ==
    IF StartsWith(b, <<sep>>) THEN b
    ELSE IF a = <<>> \/ EndsWith(a, <<sep>>) THEN a \o b
    ELSE a \o <<sep>> \o b

DotDot == <<".", ".">>

\* the loop of os.path.normpath over the components of the path
RECURSIVE NormComps(_, _, _)
NormComps(comps, initial_slashes, new_comps) ==
    IF comps = <<>> THEN new_comps
    ELSE LET comp == Head(comps)
             rest == Tail(comps)
         IN  IF comp = <<>> \/ comp = <<".">>
             THEN NormComps(rest, initial_slashes, new_comps)
             ELSE IF \/ comp # DotDot
                     \/ (initial_slashes = 0 /\ new_comps = <<>>)
                     \/ (new_comps # <<>> /\ new_comps[Len(new_comps)] = DotDot)
             THEN NormComps(rest, initial_slashes, Append(new_comps, comp))
             ELSE IF new_comps # <<>>
             THEN NormComps(rest, initial_slashes, SubSeq(new_comps, 1, Len(new_comps) - 1))
             ELSE NormComps(rest, initial_slashes, new_comps)

\* os.path.normpath
normpath(path) ==
    IF path = <<>> THEN <<".">>
    ELSE LET initial_slashes ==
                 IF ~StartsWith(path, <<sep>>) THEN 0
                 ELSE IF StartsWith(path, <<sep, sep>>) /\ ~StartsWith(path, <<sep, sep, sep>>)
                      THEN 2 ELSE 1
             body == JoinWith(NormComps(SplitOn(path, sep), initial_slashes, <<>>), sep)
             r == Repeat(sep, initial_slashes) \o body
         IN  IF r = <<>> THEN <<".">> ELSE r

\* os.path.abspath
abspath(path) ==
    normpath(IF StartsWith(path, <<sep>>) THEN path ELSE join(Cwd, path))

\* (mutant) the head keeps its trailing separator
split_keepslash(p) ==
    LET i == RFind(p, sep)
    IN  <<SubSeq(p, 1, i), SubSeq(p, i + 1, Len(p))>>

\* os.path.split: <<head, tail>>
split(p) ==
    LET i == RFind(p, sep)
        head == SubSeq(p, 1, i)
        tail == SubSeq(p, i + 1, Len(p))
    IN  IF head # <<>> /\ head # Repeat(sep, Len(head))
        THEN <<RStrip(head, sep), tail>>
        ELSE <<head, tail>>

\* os.path.splitext: <<root, ext>>
splitext(p) ==
    LET sepIndex == RFind(p, sep)
        dotIndex == RFind(p, ".")
    IN  IF dotIndex > sepIndex
           /\ \E k \in (sepIndex + 1)..(dotIndex - 1) : p[k] # "."
        THEN <<SubSeq(p, 1, dotIndex - 1), SubSeq(p, dotIndex, Len(p))>>
        ELSE <<p, <<>>>>

-----------------------------------------------------------------------------
(* urllib.parse *)

\* urlparse(url).path: the scheme is cut off when the text before the first
\* colon is a scheme name, then the //netloc, then the #fragment and ?query.
urlpath(url) ==
    LET i == Find(url, {":"}, 1)
        hasScheme == /\ i > 1
                     /\ url[1] \in WordChars
                     /\ \A k \in 1..(i - 1) : url[k] \in SchemeChars
        u1 == IF hasScheme THEN SubSeq(url, i + 1, Len(url)) ELSE url
        delim == LET d == Find(u1, {"/", "?", "#"}, 3)
                 IN  IF d = 0 THEN Len(u1) + 1 ELSE d
        u2 == IF StartsWith(u1, <<"/", "/">>) THEN SubSeq(u1, delim, Len(u1)) ELSE u1
        hash == Find(u2, {"#"}, 1)
        u3 == IF hash = 0 THEN u2 ELSE SubSeq(u2, 1, hash - 1)
        query == Find(u3, {"?"}, 1)
    IN  IF query = 0 THEN u3 ELSE SubSeq(u3, 1, query - 1)

-----------------------------------------------------------------------------
(* Fname.__init__ *)

NoObj == [none |-> TRUE]
UriMark == <<":", "/", "/">>
FileScheme == <<"f", "i", "l", "e", ":", "/", "/">>

\* The object __init__ leaves behind for a non-empty str s.
Fname(s) ==
    LET is_URI == Contains(s, UriMark)
        fqn == IF is_URI /\ Contains(s, FileScheme)
               THEN urlpath(s)
               ELSE abspath(expandvars(expanduser(s)))
        dn == split(fqn)
        ne == splitext(dn[2])
    IN  [me |-> s,
         is_URI |-> is_URI,
         fqn |-> fqn,
         dir |-> dn[1],
         fname |-> dn[2],
         fname_only |-> ne[1],
         ext |-> ne[2],
         all_but_ext |-> dn[1] \o <<sep>> \o ne[1],
         content_hash |-> <<>>]

\* The property getters.
fqnOf(o) == o.fqn
directory(o) == o.dir
fname(o) == o.fname
fname_only(o) == o.fname_only
ext(o) == o.ext

-----------------------------------------------------------------------------
(* File contents.  A bytes object is kept run-length encoded: a sequence   *)
(* of runs [b |-> byte value, n |-> how many], n >= 1, neighbouring runs   *)
(* of different byte values.  b'' is <<>>.                                 *)

BUFSIZE == 65536

\* len(bs)
RECURSIVE BLen(_)
BLen(bs) == IF bs = <<>> THEN 0 ELSE Head(bs).n + BLen(Tail(bs))

\* bs[:k]
RECURSIVE BTake(_, _)
BTake(bs, k) ==
    IF k <= 0 \/ bs = <<>> THEN <<>>
    ELSE IF Head(bs).n <= k THEN <<Head(bs)>> \o BTake(Tail(bs), k - Head(bs).n)
    ELSE <<[b |-> Head(bs).b, n |-> k]>>

\* bs[k:]
RECURSIVE BDrop(_, _)
BDrop(bs, k) ==
    IF bs = <<>> THEN <<>>
    ELSE IF k <= 0 THEN bs
    ELSE IF Head(bs).n <= k THEN BDrop(Tail(bs), k - Head(bs).n)
    ELSE <<[b |-> Head(bs).b, n |-> Head(bs).n - k]>> \o Tail(bs)

\* x + y
BCat(x, y) ==
    IF x = <<>> THEN y
    ELSE IF y = <<>> THEN x
    ELSE IF x[Len(x)].b = y[1].b
    THEN SubSeq(x, 1, Len(x) - 1)
         \o <<[b |-> y[1].b, n |-> x[Len(x)].n + y[1].n]>>
         \o Tail(y)
    ELSE x \o y

\* b''.join(segs)
RECURSIVE BJoin(_)
BJoin(segs) == IF segs = <<>> THEN <<>> ELSE BCat(Head(segs), BJoin(Tail(segs)))

-----------------------------------------------------------------------------
(* The filesystem: what is at a path is nothing, a directory, or a regular *)
(* file with its bytes.                                                    *)

Nothing == [kind |-> "none"]
Directory == [kind |-> "dir"]
RegularFile(data) == [kind |-> "file", data |-> data]

\* os.path.isfile
isfile(entry) == entry.kind = "file"

\* os.stat(path).st_size of a regular file
st_size(entry) == BLen(entry.data)

\* open(path, 'rb'): the exception it raises, or "none"
OpenError(entry) ==
    CASE entry.kind = "none" -> "FileNotFoundError"
      [] entry.kind = "dir" -> "IsADirectoryError"
      [] OTHER -> "none"

\* The file object open() returns: the bytes of the inode and the position.
FileObject(entry) == [data |-> entry.data, pos |-> 0]

\* (mutant) a read that returns nothing when fewer than size bytes are left
FileRead_whole(fo, size) ==
    IF BLen(fo.data) - fo.pos < size THEN <<>> ELSE BTake(BDrop(fo.data, fo.pos), size)

\* f.read(size) at the file object's position
FileRead(fo, size) == BTake(BDrop(fo.data, fo.pos), size)

\* the file object after that read
Advance(fo, segment) == [fo EXCEPT !.pos = @ + BLen(segment)]

-----------------------------------------------------------------------------
(* hashlib.md5.  The hasher is the bytes absorbed so far; the digest is a  *)
(* fixed-width lowercase hexadecimal string that depends on nothing but    *)
(* those bytes (a 16-bit checksum stands for the 128 bits of MD5).         *)

HexDigits == <<"0", "1", "2", "3", "4", "5", "6", "7",
               "8", "9", "a", "b", "c", "d", "e", "f">>

RECURSIVE Checksum(_, _)
Checksum(bs, h) ==
    IF bs = <<>> THEN h
    ELSE Checksum(Tail(bs), (h * 131 + (Head(bs).b + 1) * 17 + (Head(bs).n % 4096) * 3) % 65536)

md5 == <<>>                                     \* hashlib.md5()
update(hasher, segment) == BCat(hasher, segment)    \* hasher.update(segment)
hexdigest(hasher) ==                            \* hasher.hexdigest()
    LET v == Checksum(hasher, 54321)
    IN  <<HexDigits[((v \div 4096) % 16) + 1], HexDigits[((v \div 256) % 16) + 1],
          HexDigits[((v \div 16) % 16) + 1], HexDigits[(v % 16) + 1]>>

\* the read loop of Fname.hash: every segment read goes into the hasher
RECURSIVE HashLoop(_, _)
HashLoop(fo, hasher) ==
    LET segment == FileRead(fo, BUFSIZE)
    IN  IF segment = <<>> THEN hasher
        ELSE HashLoop(Advance(fo, segment), update(hasher, segment))

\* the digest Fname.hash computes for a regular file
ComputeHash(entry) == hexdigest(HashLoop(FileObject(entry), md5))

-----------------------------------------------------------------------------
(* The methods of Fname that look at the filesystem.  FS is the filesystem *)
(* at the moment of the call.                                              *)

\* (mutant) os.path.exists in place of os.path.isfile
Fname_bool_exists(self, FS) == FS[self.fqn].kind # "none"

\* Fname.__bool__
Fname_bool(self, FS) == isfile(FS[self.fqn])

\* Fname.__len__
Fname_len(self, FS) ==
    IF ~Fname_bool(self, FS) THEN 0 ELSE st_size(FS[self.fqn])

\* (mutant) the cached digest is ignored and the file hashed on every call
Fname_hash_recompute(self, FS) ==
    IF OpenError(FS[self.fqn]) # "none"
    THEN [obj |-> self, val |-> <<>>, exc |-> OpenError(FS[self.fqn]), opened |-> TRUE]
    ELSE LET d == ComputeHash(FS[self.fqn])
         IN  [obj |-> [self EXCEPT !.content_hash = d], val |-> d,
              exc |-> "none", opened |-> TRUE]

\* (mutant) a missing file is hashed as if it were empty, as __call__ reads it
Fname_hash_swallow(self, FS) ==
    IF Len(self.content_hash) > 0
    THEN [obj |-> self, val |-> self.content_hash, exc |-> "none", opened |-> FALSE]
    ELSE LET d == IF isfile(FS[self.fqn]) THEN ComputeHash(FS[self.fqn]) ELSE hexdigest(md5)
         IN  [obj |-> [self EXCEPT !.content_hash = d], val |-> d,
              exc |-> "none", opened |-> TRUE]

\* Fname.hash: the object afterwards, the value returned or the exception
\* raised, and whether open() was called.
Fname_hash(self, FS) ==
    IF Len(self.content_hash) > 0
    THEN [obj |-> self, val |-> self.content_hash, exc |-> "none", opened |-> FALSE]
    ELSE IF OpenError(FS[self.fqn]) # "none"
    THEN [obj |-> self, val |-> <<>>, exc |-> OpenError(FS[self.fqn]), opened |-> TRUE]
    ELSE LET d == ComputeHash(FS[self.fqn])
         IN  [obj |-> [self EXCEPT !.content_hash = d], val |-> d,
              exc |-> "none", opened |-> TRUE]

\* The statement `self()`: Fname.__call__ is a generator function, so the
\* call builds a generator object and runs none of the body; the object
\* keeps its fields and the generator is dropped unstarted.
AfterCallStatement(self) == self

\* Fname.__matmul__ on two Fname objects: both objects afterwards and the
\* value returned.
Fname_matmul(self, other, FS) ==
    IF ~Fname_bool(self, FS) \/ ~Fname_bool(other, FS)
    THEN [self |-> self, other |-> other, val |-> FALSE]
    ELSE IF Fname_len(self, FS) # Fname_len(other, FS)
    THEN [self |-> self, other |-> other, val |-> FALSE]
    ELSE LET s1 == IF Len(self.content_hash) = 0 THEN AfterCallStatement(self) ELSE self
             o1 == IF Len(other.content_hash) = 0 THEN AfterCallStatement(other) ELSE other
         IN  [self |-> s1, other |-> o1, val |-> (s1.content_hash = o1.content_hash)]

-----------------------------------------------------------------------------
(* Spec: two Fname objects, the files they name, and the calls made on     *)
(* them while the files come, change and go.                               *)

ByteVals == {0, 1}
FsRunLens == {1, BUFSIZE + 1}

\* the run-length encoded byte strings of exactly k runs
RunSeqs(k, lens) ==
    {s \in [1..k -> [b : ByteVals, n : lens]] : \A i \in 1..(k - 1) : s[i].b # s[i + 1].b}

\* the bytes a file of Spec may hold: up to MaxFileRuns runs, of which only
\* the first may be longer than a buffer
FsContents ==
    {s \in UNION {RunSeqs(k, FsRunLens) : k \in 0..MaxFileRuns} :
        \A i \in 2..Len(s) : s[i].n = 1}
FsEntries == {Nothing, Directory} \cup {RegularFile(d) : d \in FsContents}

Handles == {"x", "y"}
PathA == Cwd \o <<"/", "a">>
PathB == Cwd \o <<"/", "b">>
Paths == {PathA, PathB}

\* x is built from a relative name; y from a file:// URI of the same file,
\* or from the name of another file.
YInputs == {FileScheme \o PathA, <<"b">>}

\* what the last call returned: val for bool() and @, size for len(), digest
\* for .hash; exc the exception raised; opened whether it called open()
NoCall == [op |-> "none", h |-> "", other |-> "", val |-> FALSE, size |-> 0,
           digest |-> <<>>, exc |-> "none", opened |-> FALSE]

CreateIdle == arg = <<>> /\ f = NoObj /\ g = NoObj /\ err = "none" /\ cpc = "idle"
ReadIdle == gen = "idle" /\ fd = <<>> /\ out = <<>> /\ disk = <<>> /\ changed = 0

Init ==
    /\ fs \in [Paths -> FsEntries]
    /\ objs \in {[h \in Handles |-> IF h = "x" THEN Fname(<<"a">>) ELSE Fname(s)] : s \in YInputs}
    /\ ret = NoCall
    /\ modified = [p \in Paths |-> "asbuilt"]
    /\ CreateIdle /\ ReadIdle

\* bool(h)
CallBool(h) ==
    /\ ret' = [NoCall EXCEPT !.op = "bool", !.h = h, !.other = h,
                             !.val = Fname_bool(objs[h], fs)]
    /\ UNCHANGED <<fs, objs, modified, createVars, readVars>>

\* len(h)
CallLen(h) ==
    /\ ret' = [NoCall EXCEPT !.op = "len", !.h = h, !.other = h,
                             !.size = Fname_len(objs[h], fs)]
    /\ UNCHANGED <<fs, objs, modified, createVars, readVars>>

\* h.hash
CallHash(h) ==
    LET r == Fname_hash(objs[h], fs)
    IN  /\ objs' = [objs EXCEPT ![h] = r.obj]
        /\ ret' = [NoCall EXCEPT !.op = "hash", !.h = h, !.other = h, !.digest = r.val,
                                 !.exc = r.exc, !.opened = r.opened]
        /\ UNCHANGED <<fs, modified, createVars, readVars>>

\* h @ o, o another Fname object (or h itself)
CallMatmul(h, o) ==
    LET r == Fname_matmul(objs[h], objs[o], fs)
    IN  /\ objs' = [k \in Handles |-> IF k = o THEN r.other ELSE IF k = h THEN r.self ELSE objs[k]]
        /\ ret' = [NoCall EXCEPT !.op = "matmul", !.h = h, !.other = o, !.val = r.val]
        /\ UNCHANGED <<fs, modified, createVars, readVars>>

\* h @ "a string": `raise NotImplemented` raises TypeError
CallMatmulStr(h) ==
    /\ ret' = [NoCall EXCEPT !.op = "matmul", !.h = h, !.other = "str",
                             !.exc = "TypeError"]
    /\ UNCHANGED <<fs, objs, modified, createVars, readVars>>

\* what the history of a path becomes when the path changes
Touched(p, creating) ==
    [modified EXCEPT ![p] = IF @ = "asbuilt" /\ creating THEN "created" ELSE "changed"]

\* some process writes data to path p (creating the file or replacing its bytes)
WriteFile(p, data) ==
    /\ fs[p].kind # "dir"
    /\ fs[p] # RegularFile(data)
    /\ fs' = [fs EXCEPT ![p] = RegularFile(data)]
    /\ modified' = Touched(p, fs[p].kind = "none")
    /\ ret' = NoCall
    /\ UNCHANGED <<objs, createVars, readVars>>

\* some process unlinks the file at p
Unlink(p) ==
    /\ fs[p].kind = "file"
    /\ fs' = [fs EXCEPT ![p] = Nothing]
    /\ modified' = Touched(p, FALSE)
    /\ ret' = NoCall
    /\ UNCHANGED <<objs, createVars, readVars>>

\* some process makes a directory at p
Mkdir(p) ==
    /\ fs[p].kind = "none"
    /\ fs' = [fs EXCEPT ![p] = Directory]
    /\ modified' = Touched(p, FALSE)
    /\ ret' = NoCall
    /\ UNCHANGED <<objs, createVars, readVars>>

\* some process removes the directory at p
Rmdir(p) ==
    /\ fs[p].kind = "dir"
    /\ fs' = [fs EXCEPT ![p] = Nothing]
    /\ modified' = Touched(p, FALSE)
    /\ ret' = NoCall
    /\ UNCHANGED <<objs, createVars, readVars>>

Next ==
    \/ \E h \in Handles : CallBool(h)
    \/ \E h \in Handles : CallLen(h)
    \/ \E h \in Handles : CallHash(h)
    \/ \E h, o \in Handles : CallMatmul(h, o)
    \/ \E h \in Handles : CallMatmulStr(h)
    \/ \E p \in Paths, d \in FsContents : WriteFile(p, d)
    \/ \E p \in Paths : Unlink(p)
    \/ \E p \in Paths : Mkdir(p)
    \/ \E p \in Paths : Rmdir(p)

Spec == Init /\ [][Next]_vars

-----------------------------------------------------------------------------
(* Claims about Spec *)

EntryOf(h) == fs[objs[h].fqn]

\* C1: h @ o on two existing files of the same size leaves the content hash
\* of both objects computed and returns whether the two hashes are equal.
C1_MatmulComputesBothHashes ==
    (/\ ret.op = "matmul" /\ ret.exc = "none"
     /\ isfile(EntryOf(ret.h)) /\ isfile(EntryOf(ret.other))
     /\ st_size(EntryOf(ret.h)) = st_size(EntryOf(ret.other)))
    => /\ objs[ret.h].content_hash # <<>>
       /\ objs[ret.other].content_hash # <<>>
       /\ ret.val = (objs[ret.h].content_hash = objs[ret.other].content_hash)

\* C2: h @ o is true whenever both files exist, hold the same bytes and were
\* never modified since the objects were built, whatever was called before.
C2_SameBytesCompareEqual ==
    (/\ ret.op = "matmul" /\ ret.exc = "none"
     /\ isfile(EntryOf(ret.h)) /\ isfile(EntryOf(ret.other))
     /\ EntryOf(ret.h).data = EntryOf(ret.other).data
     /\ modified[objs[ret.h].fqn] = "asbuilt"
     /\ modified[objs[ret.other].fqn] = "asbuilt")
    => ret.val = TRUE

\* C3: once an object's content hash is computed no step changes it, and a
\* later read of h.hash returns it without calling open(), whatever has
\* happened to the file.
C3_HashCachedOnce ==
    [][\A h \in Handles :
         objs[h].content_hash # <<>> =>
           /\ objs'[h].content_hash = objs[h].content_hash
           /\ (ret'.op = "hash" /\ ret'.h = h) =>
                (ret'.exc = "none" /\ ret'.digest = objs[h].content_hash /\ ~ret'.opened)]_vars

\* a cached digest was returned although the file has changed or gone since
C3_Witness ==
    /\ ret.op = "hash" /\ ret.exc = "none" /\ ~ret.opened
    /\ modified[objs[ret.h].fqn] = "changed"
    /\ (isfile(EntryOf(ret.h)) => hexdigest(update(md5, EntryOf(ret.h).data)) # ret.digest)

\* C4: h.hash with no cached digest (so open() is called) raises
\* FileNotFoundError when nothing is at the path and leaves the cache unset;
\* it never returns an empty digest; and when a regular file is there (also
\* one created after an earlier failure) it returns and caches the digest of
\* the file's bytes.
C4_HashOfMissingFileRaises ==
    ret.op = "hash" =>
      /\ (ret.opened /\ EntryOf(ret.h).kind = "none") =>
            (ret.exc = "FileNotFoundError" /\ objs[ret.h].content_hash = <<>>)
      /\ (ret.exc = "none") => ret.digest # <<>>
      /\ (ret.opened /\ isfile(EntryOf(ret.h))) =>
            /\ ret.exc = "none"
            /\ ret.digest = hexdigest(update(md5, EntryOf(ret.h).data))
            /\ objs[ret.h].content_hash = ret.digest

\* h.hash has just raised FileNotFoundError
C4_Witness ==
    /\ ret.op = "hash" /\ ret.opened /\ ret.exc = "FileNotFoundError"
    /\ EntryOf(ret.h).kind = "none"
    /\ objs[ret.h].content_hash = <<>>

\* C5: bool(h) is true iff a regular file is at h's fqn at the moment of
\* the call, and len(h) is that file's size then, 0 when there is none.
C5_ExistenceAndSizeAreLive ==
    /\ ret.op = "bool" => ret.val = (EntryOf(ret.h).kind = "file")
    /\ ret.op = "len" =>
         ret.size = IF EntryOf(ret.h).kind = "file" THEN BLen(EntryOf(ret.h).data) ELSE 0

\* an object built while nothing was at its path reports the file written since
C5_Witness ==
    /\ ret.op = "bool" /\ ret.val = TRUE
    /\ modified[objs[ret.h].fqn] = "created"

-----------------------------------------------------------------------------
(* SpecRead: one generator made by Fname.__call__, its consumer, and the   *)
(* file it reads.  The consumer asks for the next segment or gives the     *)
(* generator up (close(), which the interpreter also calls when the last   *)
(* reference to a suspended generator goes away); a read or the open may   *)
(* fail; other processes may rewrite or unlink the file meanwhile.         *)

ReadRunLens == {1, BUFSIZE, BUFSIZE + 1}
ReadContents == UNION {RunSeqs(k, ReadRunLens) : k \in 0..MaxReadRuns}

Reader == Fname(<<"a">>)             \* the object whose __call__ made the generator
ReadFS == (Reader.fqn :> disk)       \* the filesystem as the generator sees it

NoFd == [state |-> "none", linked |-> FALSE, data |-> <<>>, pos |-> 0]

\* open(str(self), 'rb') on entering the with-block
OpenFd(entry) == [state |-> "open", linked |-> TRUE, data |-> entry.data, pos |-> 0]

\* (mutant) the file object is left open when the block is left
ExitWith_leak(fo) == fo

\* leaving the with-block, however it is left: f.close()
ExitWith(fo) == [state |-> "closed", linked |-> FALSE, data |-> <<>>, pos |-> 0]

\* The loop of __call__ from `segment = f.read(...)` to the next yield or
\* to the end of the with-block: the generator, file object and output after.
RunToYield(fo, segs, readOk) ==
    IF ~readOk
    THEN [gen |-> "failed", fd |-> ExitWith(fo), out |-> segs]
    ELSE LET segment == FileRead(fo, BUFSIZE)
         IN  IF segment = <<>>
             THEN [gen |-> "done", fd |-> ExitWith(fo), out |-> segs]
             ELSE [gen |-> "suspended", fd |-> Advance(fo, segment),
                   out |-> Append(segs, segment)]

InitRead ==
    /\ disk \in {Nothing, Directory} \cup {RegularFile(d) : d \in ReadContents}
    /\ gen = "created"
    /\ fd = NoFd
    /\ out = <<>>
    /\ changed = 0
    /\ CreateIdle
    /\ fs = <<>> /\ objs = <<>> /\ ret = NoCall /\ modified = <<>>

\* the consumer's first next(): the body runs from its first line
Start(io) ==
    /\ gen = "created"
    /\ IF ~Fname_bool(Reader, ReadFS)
       THEN /\ gen' = "done"
            /\ UNCHANGED <<fd, out>>
       ELSE IF io = "open fails"
       THEN /\ gen' = "failed"
            /\ UNCHANGED <<fd, out>>
       ELSE LET r == RunToYield(OpenFd(disk), out, io = "ok")
            IN  gen' = r.gen /\ fd' = r.fd /\ out' = r.out
    /\ UNCHANGED <<disk, changed, createVars, fsVars>>

\* a later next(): the body resumes after the yield
Resume(io) ==
    /\ gen = "suspended"
    /\ io # "open fails"
    /\ LET r == RunToYield(fd, out, io = "ok")
       IN  gen' = r.gen /\ fd' = r.fd /\ out' = r.out
    /\ UNCHANGED <<disk, changed, createVars, fsVars>>

\* the consumer gives the generator up: close() raises GeneratorExit at the
\* yield, which leaves the with-block; an unstarted generator just ends
Abandon ==
    /\ gen \in {"created", "suspended"}
    /\ gen' = "closed"
    /\ fd' = IF gen = "suspended" THEN ExitWith(fd) ELSE fd
    /\ UNCHANGED <<out, disk, changed, createVars, fsVars>>

\* some process writes data to the path: a file there is rewritten in place
\* (an open file object sees the new bytes), otherwise a new file is made
WriteDisk(data) ==
    /\ changed < MaxChanges
    /\ disk.kind # "dir"
    /\ disk # RegularFile(data)
    /\ disk' = RegularFile(data)
    /\ fd' = IF fd.state = "open" /\ fd.linked /\ disk.kind = "file"
             THEN [fd EXCEPT !.data = data] ELSE fd
    /\ changed' = changed + 1
    /\ UNCHANGED <<gen, out, createVars, fsVars>>

\* some process unlinks the file: an open file object keeps its bytes
UnlinkDisk ==
    /\ changed < MaxChanges
    /\ disk.kind = "file"
    /\ disk' = Nothing
    /\ fd' = IF fd.state = "open" THEN [fd EXCEPT !.linked = FALSE] ELSE fd
    /\ changed' = changed + 1
    /\ UNCHANGED <<gen, out, createVars, fsVars>>

IoOutcomes == {"ok", "open fails", "read fails"}

NextRead ==
    \/ \E io \in IoOutcomes : Start(io)
    \/ \E io \in IoOutcomes : Resume(io)
    \/ Abandon
    \/ \E d \in ReadContents : WriteDisk(d)
    \/ UnlinkDisk

SpecRead == InitRead /\ [][NextRead]_vars

C10_FileOpenOnlyWhileIterating ==
    /\ gen = "created" => fd.state = "none"
    /\ fd.state = "open" => gen = "suspended"
    /\ gen \in {"done", "closed", "failed"} => fd.state \in {"none", "closed"}

\* the consumer gave the generator up after a segment, and the file is closed
C10_Witness ==
    /\ gen = "closed" /\ out # <<>> /\ fd.state = "closed"

-----------------------------------------------------------------------------
(* SpecCreate: the constructor applied to every bounded input, and then    *)
(* applied again to the fqn it produced.                                   *)

PathAlphabet == {"/", ".", "a", "~", "$", ":"}
Texts == UNION {[1..n -> PathAlphabet] : n \in 0..MaxLen}
\* plain texts (the empty one included) and file:// URIs
Inputs == Texts \cup {FileScheme \o t : t \in Texts}

OthersIdleForCreate ==
    /\ fs = <<>> /\ objs = <<>> /\ ret = NoCall /\ modified = <<>>
    /\ ReadIdle

InitCreate ==
    /\ arg \in Inputs
    /\ f = NoObj /\ g = NoObj /\ err = "none" /\ cpc = "start"
    /\ OthersIdleForCreate

\* f = Fname(arg)
Construct ==
    /\ cpc = "start"
    /\ IF arg = <<>>
       THEN /\ err' = "ValueError"
            /\ cpc' = "raised"
            /\ f' = f
       ELSE /\ f' = Fname(arg)
            /\ cpc' = "made"
            /\ err' = err
    /\ UNCHANGED <<arg, g, fsVars, readVars>>

\* g = Fname(f.fqn)
Reconstruct ==
    /\ cpc = "made"
    /\ cpc' = "remade"
    /\ IF fqnOf(f) = <<>>
       THEN /\ err' = "ValueError"
            /\ g' = g
       ELSE /\ g' = Fname(fqnOf(f))
            /\ err' = err
    /\ UNCHANGED <<arg, f, fsVars, readVars>>

NextCreate == Construct \/ Reconstruct

SpecCreate == InitCreate /\ [][NextCreate]_vars

\* C6 as the specification states it, for the inputs that are no URI:
\* fqn = directory + separator + fileName.
C6_FqnIsDirSepName ==
    (cpc \in {"made", "remade"} /\ ~f.is_URI) =>
        fqnOf(f) = directory(f) \o <<sep>> \o fname(f)

OnlySeparators(s) == s = Repeat(sep, Len(s))

FqnParts(o) ==
    /\ \A i \in 1..Len(fname(o)) : fname(o)[i] # sep
    /\ IF OnlySeparators(directory(o))
       THEN fqnOf(o) = directory(o) \o fname(o)
       ELSE /\ ~EndsWith(directory(o), <<sep>>)
            /\ \E k \in 1..Len(fqnOf(o)) :
                 fqnOf(o) = directory(o) \o Repeat(sep, k) \o fname(o)
            /\ ~(o.is_URI /\ Contains(o.me, FileScheme)) =>
                 fqnOf(o) = directory(o) \o <<sep>> \o fname(o)

\* C6 (amended): fileName holds no separator; when directory is empty or
\* made of separators only (the root) fqn = directory + fileName; otherwise
\* directory has no trailing separator and fqn = directory + one or more
\* separators + fileName, exactly one unless the input was a file:// URI.
C6_FqnIsDirJoinedWithName ==
    /\ cpc \in {"made", "remade"} => FqnParts(f)
    /\ (cpc = "remade" /\ err = "none") => FqnParts(g)

\* a file directly under the root: the directory is the root itself
C6_Witness ==
    /\ cpc = "made" /\ ~f.is_URI
    /\ directory(f) = <<sep>> /\ fname(f) # <<>>
    /\ fqnOf(f) = directory(f) \o fname(f)

\* C7: the extension has no leading dot, and fileName is stem + '.' +
\* extension, or the stem alone when there is no extension.
C7_NameIsStemDotExt ==
    cpc \in {"made", "remade"} =>
      /\ ext(f) = <<>> \/ ext(f)[1] # "."
      /\ fname(f) = IF ext(f) = <<>> THEN fname_only(f)
                    ELSE fname_only(f) \o <<".">> \o ext(f)

\* C8: the fqn of every accepted input is absolute, and building an object
\* from that fqn succeeds and gives the same fqn.
C8_NormalizationIdempotent ==
    /\ cpc \in {"made", "remade"} => StartsWith(fqnOf(f), <<sep>>)
    /\ cpc = "remade" => (err = "none" /\ fqnOf(g) = fqnOf(f))

====
